---- MODULE Spec2Model ----
(***************************************************************************)
(* Model of the stack language's compile-and-step virtual machine          *)
(* (stack-core/src/compile.rs): the machine values Val with their          *)
(* arithmetic, the instruction type Op, VM::compile / VM::compile_expr,    *)
(* VM::step, VM::stack_push and VM::stack_pop.                             *)
(*                                                                         *)
(* A Rust panic (todo!(), division by zero, remainder overflow) unwinds    *)
(* out of the call; nothing in compile.rs catches it, so the process       *)
(* aborts.  The model records it as the outcome "panic" and sets aborted.  *)
(***************************************************************************)
EXTENDS Integers, Naturals, Sequences, FiniteSets, TLC

VARIABLES
  ops,      \* VM.ops: the instruction stream
  ip,       \* VM.ip: the instruction pointer
  stack,    \* VM.stack: the value stack, top at the end
  aborted,  \* TRUE once a panic has unwound out of a call on the VM
  last,     \* name of the last method called on the VM
  ret,      \* what that call returned
  exprs,    \* the argument of the last compile call
  rets,     \* history: the results of the step calls, in call order
  ndirect,  \* history: number of direct stack_push / stack_pop calls
  a_op,     \* arithmetic harness: the operator applied
  a_lhs,    \* arithmetic harness: left operand
  a_rhs,    \* arithmetic harness: right operand
  a_res,    \* arithmetic harness: the value returned
  pc,       \* main: where the program stands ("caller" outside main)
  p_tokens, \* parse: the tokens handed to parse
  p_pos,    \* parse: number of tokens the loop has consumed
  blocks,   \* parse: the open frames, innermost last
  list_mode,\* parse: the closer each open bracket expects, innermost last
  p_pc,     \* parse: "idle", "scan" inside the loop, "returned"
  p_ret,    \* parse: the vector returned
  p_err,    \* parse: the diagnostic printed, "" when none
  e_a,      \* Expr equality: left operand of ==
  e_b,      \* Expr equality: right operand of ==
  e_pc,     \* Expr equality: "idle", "ready", "done"
  e_res,    \* Expr equality: what eq returned
  w_modules,\* scope where: names of the modules registered in the engine
  w_lets,   \* scope where: names bound by let in the context
  w_items,  \* scope where: names of the scope items (def) of the context
  w_vals,   \* scope: what each scope item holds, "none" when it has no value
  w_stack,  \* scope where: the stack of the context, top at the end
  w_arg,    \* scope where: the stack as it was when `where` was called
  w_pc,     \* scope: "idle", "ready", "done" after where, "dumped"
  w_ret,    \* scope where: "Ok" or "Err", as the function returned
  c_mode,   \* cli: the subcommand ("Repl", "Stdin", "Run", "Watch")
  c_pc,     \* cli: where main stands; "exited" once the process has ended
  c_code,   \* cli: the exit status of the process once it has ended
  c_errs,   \* cli: what was written to the error stream, in order
  c_outs,   \* cli: what was written to the output stream, in order
  c_fail,   \* cli: the kind of the last failure met, "" when none
  c_sig,    \* cli: the last signal or line the REPL read
  c_n       \* cli: number of REPL lines or watch events read

vmvars == <<ops, ip, stack, aborted, last, ret, exprs, rets, ndirect>>
avars  == <<a_op, a_lhs, a_rhs, a_res>>
vars   == <<ops, ip, stack, aborted, last, ret, exprs, rets, ndirect,
            a_op, a_lhs, a_rhs, a_res, pc,
            p_tokens, p_pos, blocks, list_mode, p_pc, p_ret, p_err,
            e_a, e_b, e_pc, e_res,
            w_modules, w_lets, w_items, w_vals, w_stack, w_arg, w_pc, w_ret,
            c_mode, c_pc, c_code, c_errs, c_outs, c_fail, c_sig, c_n>>
cvars  == <<c_mode, c_pc, c_code, c_errs, c_outs, c_fail, c_sig, c_n>>
wvars  == <<w_modules, w_lets, w_items, w_vals, w_stack, w_arg, w_pc,
            w_ret>>
evars  == <<e_a, e_b, e_pc, e_res>>
pvars  == <<p_tokens, p_pos, blocks, list_mode, p_pc, p_ret, p_err>>
\* what the calls on the VM leave alone
nonvm  == <<a_op, a_lhs, a_rhs, a_res, pc, pvars, evars, wvars, cvars>>
\* what the Val operators leave alone
nonval == <<ops, ip, stack, aborted, last, ret, exprs, rets, ndirect, pc,
            pvars, evars, wvars, cvars>>

(***************************************************************************)
(* Bounds of the model.                                                    *)
(***************************************************************************)
\* i64 is modelled at this width (two's complement); every saturating
\* operation clamps at the bounds of the width.
IntBits == 15
\* longest token stream handed to parse
MaxTokens == 4
\* how far around i64::MIN, 0 and i64::MAX the integer operands range
NearK == 2
\* longest expression sequence handed to compile
MaxExprs == 3
\* most step calls made on one VM
MaxSteps == 5
\* most direct stack_push / stack_pop calls made on one VM
MaxDirect == 1
\* most lines the REPL reads, and most file events the watch loop receives
MaxLines == 3

I64_MAX == 2^(IntBits - 1) - 1
I64_MIN == 0 - 2^(IntBits - 1)
\* usize is modelled one bit wider than i64
USIZE_MAX == 2^(IntBits + 1) - 1
\* the stream never outgrows what compile calls of MaxExprs expressions give
MaxOps == MaxExprs + 1

(***************************************************************************)
(* Val: Integer(i64) | Float(f64).                                         *)
(* A finite float is held in fixed point, v counting units of 1/FScale;    *)
(* cls tells the finite values from NaN and the infinities.  The float     *)
(* operands of the model are zero and signed powers of two, on which the   *)
(* IEEE operations are exact.                                              *)
(***************************************************************************)
FScale == 4

Integer(i) == [variant |-> "Integer", cls |-> "int", v |-> i]
Float(q)   == [variant |-> "Float", cls |-> "finite", v |-> q]
FloatNaN    == [variant |-> "Float", cls |-> "nan", v |-> 0]
FloatInf    == [variant |-> "Float", cls |-> "inf", v |-> 0]
FloatNegInf == [variant |-> "Float", cls |-> "-inf", v |-> 0]
NoVal == [variant |-> "none", cls |-> "none", v |-> 0]

\* -2.0, 0.0, 0.5, 1.0, 2.0
FloatVals == {Float(0 - 2 * FScale), Float(0), Float(FScale \div 2),
              Float(FScale), Float(2 * FScale)}

NearInts == (I64_MIN .. (I64_MIN + NearK)) \cup ((0 - NearK) .. NearK)
              \cup ((I64_MAX - NearK) .. I64_MAX)
IntVals == {Integer(i) : i \in NearInts}

(***************************************************************************)
(* i64 arithmetic of the Rust standard library, as used by the Val ops.    *)
(***************************************************************************)
Abs(x) == IF x < 0 THEN 0 - x ELSE x
\* division truncating toward zero (Rust's / on integers), b # 0
TruncDiv(a, b) ==
  IF (a < 0) = (b < 0) THEN Abs(a) \div Abs(b) ELSE 0 - (Abs(a) \div Abs(b))
\* remainder with the sign of the dividend (Rust's % on integers), b # 0
TruncRem(a, b) == a - b * TruncDiv(a, b)

Clamp(x) == IF x > I64_MAX THEN I64_MAX ELSE IF x < I64_MIN THEN I64_MIN ELSE x

\* outcome of an integer primitive: a value, or a panic
IntOk(x) == [panics |-> FALSE, v |-> x]
IntPanic == [panics |-> TRUE, v |-> 0]

\* saturating_add with the sum wrapping around instead of clamping
wrapping_add(a, b) ==
  IntOk(((a + b - I64_MIN) % (2^IntBits)) + I64_MIN)

saturating_add(a, b) == IntOk(Clamp(a + b))
saturating_sub(a, b) == IntOk(Clamp(a - b))
saturating_mul(a, b) == IntOk(Clamp(a * b))
\* i64::saturating_div panics when the divisor is zero
saturating_div(a, b) == IF b = 0 THEN IntPanic ELSE IntOk(Clamp(TruncDiv(a, b)))
\* lhs % rhs panics when the divisor is zero and when it overflows
\* (i64::MIN % -1)
int_rem(a, b) ==
  IF b = 0 \/ (a = I64_MIN /\ b = 0 - 1) THEN IntPanic
  ELSE IntOk(TruncRem(a, b))

(***************************************************************************)
(* f64 arithmetic on finite fixed-point operands.  Division by zero gives  *)
(* an infinity or NaN, remainder by zero NaN; neither panics.              *)
(***************************************************************************)
float_add(a, b) == Float(a.v + b.v)
float_sub(a, b) == Float(a.v - b.v)
float_mul(a, b) == Float(TruncDiv(a.v * b.v, FScale))
float_div(a, b) ==
  IF b.v = 0
  THEN IF a.v > 0 THEN FloatInf ELSE IF a.v < 0 THEN FloatNegInf ELSE FloatNaN
  ELSE Float(TruncDiv(a.v * FScale, b.v))
float_rem(a, b) == IF b.v = 0 THEN FloatNaN ELSE Float(TruncRem(a.v, b.v))

(***************************************************************************)
(* impl ops::{Add, Sub, Mul, Div, Rem} for Val.                            *)
(* Output = Result<Val, (Val, Val)>; a panic inside is a third outcome.    *)
(***************************************************************************)
Ok(val)       == [tag |-> "Ok", val |-> val, lhs |-> NoVal, rhs |-> NoVal]
Err(lhs, rhs) == [tag |-> "Err", val |-> NoVal, lhs |-> lhs, rhs |-> rhs]
Panic         == [tag |-> "panic", val |-> NoVal, lhs |-> NoVal, rhs |-> NoVal]
NoRes         == [tag |-> "none", val |-> NoVal, lhs |-> NoVal, rhs |-> NoVal]

OfInt(r) == IF r.panics THEN Panic ELSE Ok(Integer(r.v))

Val_add(lhs, rhs) ==
  IF lhs.variant = "Integer" /\ rhs.variant = "Integer"
  THEN OfInt(saturating_add(lhs.v, rhs.v))
  ELSE IF lhs.variant = "Float" /\ rhs.variant = "Float"
  THEN Ok(float_add(lhs, rhs))
  ELSE Err(lhs, rhs)

Val_sub(lhs, rhs) ==
  IF lhs.variant = "Integer" /\ rhs.variant = "Integer"
  THEN OfInt(saturating_sub(lhs.v, rhs.v))
  ELSE IF lhs.variant = "Float" /\ rhs.variant = "Float"
  THEN Ok(float_sub(lhs, rhs))
  ELSE Err(lhs, rhs)

Val_mul(lhs, rhs) ==
  IF lhs.variant = "Integer" /\ rhs.variant = "Integer"
  THEN OfInt(saturating_mul(lhs.v, rhs.v))
  ELSE IF lhs.variant = "Float" /\ rhs.variant = "Float"
  THEN Ok(float_mul(lhs, rhs))
  ELSE Err(lhs, rhs)

\* Val_div with the operands of the failure in (right, left) order
Val_div_swapped(lhs, rhs) ==
  IF lhs.variant = "Integer" /\ rhs.variant = "Integer"
  THEN OfInt(saturating_div(lhs.v, rhs.v))
  ELSE IF lhs.variant = "Float" /\ rhs.variant = "Float"
  THEN Ok(float_div(lhs, rhs))
  ELSE Err(rhs, lhs)

Val_div(lhs, rhs) ==
  IF lhs.variant = "Integer" /\ rhs.variant = "Integer"
  THEN OfInt(saturating_div(lhs.v, rhs.v))
  ELSE IF lhs.variant = "Float" /\ rhs.variant = "Float"
  THEN Ok(float_div(lhs, rhs))
  ELSE Err(lhs, rhs)

Val_rem(lhs, rhs) ==
  IF lhs.variant = "Integer" /\ rhs.variant = "Integer"
  THEN OfInt(int_rem(lhs.v, rhs.v))
  ELSE IF lhs.variant = "Float" /\ rhs.variant = "Float"
  THEN Ok(float_rem(lhs, rhs))
  ELSE Err(lhs, rhs)

ArithOps == {"add", "sub", "mul", "div", "rem"}

Apply(op, lhs, rhs) ==
  CASE op = "add" -> Val_add(lhs, rhs)
    [] op = "sub" -> Val_sub(lhs, rhs)
    [] op = "mul" -> Val_mul(lhs, rhs)
    [] op = "div" -> Val_div(lhs, rhs)
    [] op = "rem" -> Val_rem(lhs, rhs)

(***************************************************************************)
(* Expr: the expression kinds compile_expr matches on.  Integer, Float and *)
(* Symbol carry their payload; the payload of the other kinds is not read  *)
(* by compile_expr and is left out.                                        *)
(***************************************************************************)
ExprInteger(i) == [kind |-> "Integer", int |-> i, flt |-> 0, sym |-> ""]
ExprFloat(q)   == [kind |-> "Float", int |-> 0, flt |-> q, sym |-> ""]
ExprSymbol(s)  == [kind |-> "Symbol", int |-> 0, flt |-> 0, sym |-> s]
ExprOther(k)   == [kind |-> k, int |-> 0, flt |-> 0, sym |-> ""]

OtherKinds == {"Nil", "Boolean", "String", "Lazy", "List", "Record",
               "Function", "SExpr", "Underscore"}

\* Intrinsic::from_str: the intrinsic a name spells, "" when it spells none
FromStr(s) ==
  CASE s = "+"    -> "Add"
    [] s = "drop" -> "Drop"
    [] OTHER      -> ""

(***************************************************************************)
(* Op: Push(Val) | Intrinsic(Intrinsic) | End                              *)
(***************************************************************************)
Push(val)    == [op |-> "Push", val |-> val, intr |-> ""]
Intrinsic(n) == [op |-> "Intrinsic", val |-> NoVal, intr |-> n]
End          == [op |-> "End", val |-> NoVal, intr |-> ""]

(***************************************************************************)
(* What a method of the VM hands back: Ok, Ok(val) for stack_pop,          *)
(* Err(VMError), or a panic unwinding out of it.                           *)
(***************************************************************************)
VMError == {"Unknown", "Halt", "IPBounds"}
RetNone      == [tag |-> "none", err |-> "", val |-> NoVal]
RetOk        == [tag |-> "Ok", err |-> "", val |-> NoVal]
RetOkVal(v)  == [tag |-> "Ok", err |-> "", val |-> v]
RetErr(e)    == [tag |-> "Err", err |-> e, val |-> NoVal]
RetPanic     == [tag |-> "panic", err |-> "", val |-> NoVal]

\* VM::compile_expr: the op an expression lowers to, or a todo!() panic
compile_expr(expr) ==
  CASE expr.kind = "Integer" ->
         [panics |-> FALSE, op |-> Push(Integer(expr.int))]
    [] expr.kind = "Symbol" ->
         IF FromStr(expr.sym) # ""
         THEN [panics |-> FALSE, op |-> Intrinsic(FromStr(expr.sym))]
         ELSE [panics |-> TRUE, op |-> End]
    [] OTHER -> [panics |-> TRUE, op |-> End]

\* the ops pushed for es[1..n], none of which panics
RECURSIVE Lowered(_, _)
Lowered(es, n) ==
  IF n = 0 THEN <<>> ELSE Append(Lowered(es, n - 1), compile_expr(es[n]).op)

\* index of the first expression whose lowering panics, 0 when none does
FirstPanic(es) ==
  IF \E k \in 1..Len(es) : compile_expr(es[k]).panics
  THEN CHOOSE k \in 1..Len(es) :
         /\ compile_expr(es[k]).panics
         /\ \A j \in 1..(k - 1) : ~compile_expr(es[j]).panics
  ELSE 0

\* compile without the closing End
compile_no_end(cur, es) ==
  IF FirstPanic(es) = 0
  THEN [panics |-> FALSE, ops |-> cur \o Lowered(es, Len(es))]
  ELSE [panics |-> TRUE, ops |-> cur \o Lowered(es, FirstPanic(es) - 1)]

\* VM::compile on a stream cur: the stream afterwards and whether the
\* call panicked part-way (the ops pushed before the panic stay pushed)
compile(cur, es) ==
  IF FirstPanic(es) = 0
  THEN [panics |-> FALSE, ops |-> Append(cur \o Lowered(es, Len(es)), End)]
  ELSE [panics |-> TRUE, ops |-> cur \o Lowered(es, FirstPanic(es) - 1)]

\* next_ip that leaves the instruction pointer where it is
next_ip_stuck(i, len) ==
  IF i + 1 > USIZE_MAX THEN 0 - 1 ELSE i

\* self.ip.checked_add(1).map(|res| res.min(self.ops.len())); -1 is None
next_ip(i, len) ==
  IF i + 1 > USIZE_MAX THEN 0 - 1
  ELSE IF i + 1 < len THEN i + 1 ELSE len

Top(stk)  == stk[Len(stk)]
Rest(stk) == SubSeq(stk, 1, Len(stk) - 1)

\* exec_add with an underflow reported as the halt
exec_add_underflow_halt(stk) ==
  IF Len(stk) = 0
  THEN [stack |-> stk, ret |-> RetErr("Halt")]
  ELSE IF Len(stk) = 1
  THEN [stack |-> Rest(stk), ret |-> RetErr("Halt")]
  ELSE LET rhs == Top(stk)
           lhs == Top(Rest(stk))
           below == Rest(Rest(stk))
           sum == Val_add(lhs, rhs)
       IN  IF sum.tag = "Ok"
           THEN [stack |-> Append(below, sum.val), ret |-> RetOk]
           ELSE [stack |-> below, ret |-> RetPanic]

\* the Intrinsic::Add arm of step on stack stk
exec_add(stk) ==
  IF Len(stk) = 0
  THEN [stack |-> stk, ret |-> RetErr("Unknown")]
  ELSE IF Len(stk) = 1
  THEN [stack |-> Rest(stk), ret |-> RetErr("Unknown")]
  ELSE LET rhs == Top(stk)
           lhs == Top(Rest(stk))
           below == Rest(Rest(stk))
           sum == Val_add(lhs, rhs)
       IN  IF sum.tag = "Ok"
           THEN [stack |-> Append(below, sum.val), ret |-> RetOk]
           ELSE [stack |-> below, ret |-> RetPanic]

\* exec_op with End falling through to Ok(()) like the other arms
exec_op_end_ok(op, stk) ==
  CASE op.op = "Push" -> [stack |-> Append(stk, op.val), ret |-> RetOk]
    [] op.op = "Intrinsic" ->
         IF op.intr = "Add" THEN exec_add(stk)
         ELSE [stack |-> stk, ret |-> RetPanic]
    [] op.op = "End" -> [stack |-> stk, ret |-> RetOk]

\* the match on the op read by step
exec_op(op, stk) ==
  CASE op.op = "Push" -> [stack |-> Append(stk, op.val), ret |-> RetOk]
    [] op.op = "Intrinsic" ->
         IF op.intr = "Add" THEN exec_add(stk)
         ELSE [stack |-> stk, ret |-> RetPanic]
    [] op.op = "End" -> [stack |-> stk, ret |-> RetErr("Halt")]

\* VM::step on (ops, ip, stack): the fields afterwards and the result
step(os, i, stk) ==
  IF next_ip(i, Len(os)) < 0
  THEN [ip |-> i, stack |-> stk, ret |-> RetErr("IPBounds")]
  ELSE IF i < Len(os)
  THEN LET r == exec_op(os[i + 1], stk)
       IN  [ip |-> next_ip(i, Len(os)), stack |-> r.stack, ret |-> r.ret]
  ELSE [ip |-> next_ip(i, Len(os)), stack |-> stk, ret |-> RetPanic]

(***************************************************************************)
(* Inputs.                                                                 *)
(***************************************************************************)
LitInts == {0 - 1, 2, I64_MAX}
ExprSet == {ExprInteger(i) : i \in LitInts}
             \cup {ExprFloat(FScale)}
             \cup {ExprSymbol(s) : s \in {"+", "drop", "foo"}}
             \cup {ExprOther(k) : k \in OtherKinds}
PushVals == {Integer(I64_MIN), Integer(2), Float(FScale)}

(***************************************************************************)
(* The VM under any sequence of calls to its public methods.               *)
(***************************************************************************)
ArithIdle ==
  /\ a_op = "" /\ a_lhs = NoVal /\ a_rhs = NoVal /\ a_res = NoRes

\* VM::new()
VMFresh ==
  /\ ops = <<>> /\ ip = 0 /\ stack = <<>>
  /\ aborted = FALSE /\ last = "new" /\ ret = RetNone
  /\ exprs = <<>> /\ rets = <<>> /\ ndirect = 0

MainIdle == pc = "caller"

ParseIdle ==
  /\ p_tokens = <<>> /\ p_pos = 0 /\ blocks = <<>> /\ list_mode = <<>>
  /\ p_pc = "idle" /\ p_ret = <<>> /\ p_err = ""

NoExpr == [kind |-> "none", cls |-> "", num |-> 0, str |-> "",
           bool |-> FALSE, items |-> <<>>]

EqIdle == e_a = NoExpr /\ e_b = NoExpr /\ e_pc = "idle" /\ e_res = FALSE

WhereIdle ==
  /\ w_modules = {} /\ w_lets = {} /\ w_items = {} /\ w_vals = <<>>
  /\ w_stack = <<>>
  /\ w_arg = <<>> /\ w_pc = "idle" /\ w_ret = ""

CliIdle ==
  /\ c_mode = "idle" /\ c_pc = "idle" /\ c_code = 0
  /\ c_errs = <<>> /\ c_outs = <<>> /\ c_fail = "" /\ c_sig = "" /\ c_n = 0

Init ==
  /\ VMFresh /\ ArithIdle /\ MainIdle /\ ParseIdle /\ EqIdle /\ WhereIdle
  /\ CliIdle

Compile ==
  /\ ~aborted
  /\ \E n \in 0..(MaxOps - Len(ops) - 1) : \E es \in [1..n -> ExprSet] :
       /\ LET r == compile(ops, es)
          IN  /\ ops' = r.ops
              /\ aborted' = r.panics
              /\ ret' = IF r.panics THEN RetPanic ELSE RetOk
       /\ exprs' = es
  /\ last' = "compile"
  /\ UNCHANGED <<ip, stack, rets, ndirect>>
  /\ UNCHANGED nonvm

Step ==
  /\ ~aborted
  /\ Len(rets) < MaxSteps
  /\ LET r == step(ops, ip, stack)
     IN  /\ ip' = r.ip
         /\ stack' = r.stack
         /\ ret' = r.ret
         /\ aborted' = (r.ret.tag = "panic")
         /\ rets' = Append(rets, r.ret)
  /\ last' = "step"
  /\ UNCHANGED <<ops, exprs, ndirect>>
  /\ UNCHANGED nonvm

StackPush ==
  /\ ~aborted
  /\ ndirect < MaxDirect
  /\ \E val \in PushVals : stack' = Append(stack, val)
  /\ ret' = RetOk
  /\ last' = "stack_push"
  /\ ndirect' = ndirect + 1
  /\ UNCHANGED <<ops, ip, aborted, exprs, rets>>
  /\ UNCHANGED nonvm

StackPop ==
  /\ ~aborted
  /\ ndirect < MaxDirect
  /\ IF Len(stack) = 0
     THEN /\ ret' = RetErr("Unknown")
          /\ stack' = stack
     ELSE /\ ret' = RetOkVal(Top(stack))
          /\ stack' = Rest(stack)
  /\ last' = "stack_pop"
  /\ ndirect' = ndirect + 1
  /\ UNCHANGED <<ops, ip, aborted, exprs, rets>>
  /\ UNCHANGED nonvm

Next == Compile \/ Step \/ StackPush \/ StackPop

Spec == Init /\ [][Next]_vars

(***************************************************************************)
(* The Val operators on their own: operands drawn from the integers near   *)
(* the bounds and zero and from the floats, one operator applied.          *)
(***************************************************************************)
ValSet == IntVals \cup FloatVals

InitArith ==
  /\ VMFresh /\ MainIdle /\ ParseIdle /\ EqIdle /\ WhereIdle /\ CliIdle
  /\ a_op = ""
  /\ a_lhs \in ValSet
  /\ a_rhs \in ValSet
  /\ a_res = NoRes

ApplyOp ==
  /\ a_op = ""
  /\ \E op \in ArithOps :
       /\ a_op' = op
       /\ a_res' = Apply(op, a_lhs, a_rhs)
  /\ UNCHANGED <<a_lhs, a_rhs>>
  /\ UNCHANGED nonval

NextArith == ApplyOp

SpecArith == InitArith /\ [][NextArith]_vars

(***************************************************************************)
(* main of compile.rs: compile the expressions of the source on a new VM,  *)
(* step until a step returns an error, print the VM.  The source ranges    *)
(* over the expression sequences instead of the one literal of main.       *)
(***************************************************************************)
\* the loop leaves on the first Err a step returns, whatever the error
loop_breaks_on_halt(r) == r = RetErr("Halt")

\* `if let Err(err) = vm.step() { ...; break; }`
loop_breaks(r) == r.tag = "Err"

InitMain ==
  /\ VMFresh /\ ArithIdle /\ ParseIdle /\ EqIdle /\ WhereIdle /\ CliIdle
  /\ pc = "start"

MainCompile ==
  /\ pc = "start"
  /\ \E n \in 0..MaxExprs : \E es \in [1..n -> ExprSet] :
       /\ LET r == compile(ops, es)
          IN  /\ ops' = r.ops
              /\ aborted' = r.panics
              /\ ret' = IF r.panics THEN RetPanic ELSE RetOk
              /\ pc' = IF r.panics THEN "aborted" ELSE "loop"
       /\ exprs' = es
  /\ last' = "compile"
  /\ UNCHANGED <<ip, stack, rets, ndirect>>
  /\ UNCHANGED <<avars, pvars, evars, wvars, cvars>>

MainStep ==
  /\ pc = "loop"
  /\ Len(rets) < MaxSteps
  /\ LET r == step(ops, ip, stack)
     IN  /\ ip' = r.ip
         /\ stack' = r.stack
         /\ ret' = r.ret
         /\ aborted' = (r.ret.tag = "panic")
         /\ rets' = Append(rets, r.ret)
         /\ pc' = IF r.ret.tag = "panic" THEN "aborted"
                  ELSE IF loop_breaks(r.ret) THEN "print" ELSE "loop"
  /\ last' = "step"
  /\ UNCHANGED <<ops, exprs, ndirect>>
  /\ UNCHANGED <<avars, pvars, evars, wvars, cvars>>

\* println!("{vm:?}")
MainPrint ==
  /\ pc = "print"
  /\ pc' = "exit"
  /\ UNCHANGED vmvars
  /\ UNCHANGED <<avars, pvars, evars, wvars, cvars>>

NextMain == MainCompile \/ MainStep \/ MainPrint

SpecMain == InitMain /\ [][NextMain]_vars

(***************************************************************************)
(* src/parser.rs.  Expr: the expression tree parse builds.  One record     *)
(* shape serves every variant: num holds the integer, or the float in      *)
(* fixed point (units of 1/FScale) with cls telling NaN from the finite    *)
(* values; str the text of a String, Symbol or Call; bool the Boolean;     *)
(* items the children of a Block or List.                                  *)
(***************************************************************************)
E_Integer(i) == [kind |-> "Integer", cls |-> "", num |-> i, str |-> "",
                 bool |-> FALSE, items |-> <<>>]
E_Float(q)   == [kind |-> "Float", cls |-> "finite", num |-> q, str |-> "",
                 bool |-> FALSE, items |-> <<>>]
E_FloatNaN   == [kind |-> "Float", cls |-> "nan", num |-> 0, str |-> "",
                 bool |-> FALSE, items |-> <<>>]
E_String(s)  == [kind |-> "String", cls |-> "", num |-> 0, str |-> s,
                 bool |-> FALSE, items |-> <<>>]
E_Boolean(b) == [kind |-> "Boolean", cls |-> "", num |-> 0, str |-> "",
                 bool |-> b, items |-> <<>>]
E_Symbol(s)  == [kind |-> "Symbol", cls |-> "", num |-> 0, str |-> s,
                 bool |-> FALSE, items |-> <<>>]
E_Call(s)    == [kind |-> "Call", cls |-> "", num |-> 0, str |-> s,
                 bool |-> FALSE, items |-> <<>>]
E_Block(es)  == [kind |-> "Block", cls |-> "", num |-> 0, str |-> "",
                 bool |-> FALSE, items |-> es]
E_List(es)   == [kind |-> "List", cls |-> "", num |-> 0, str |-> "",
                 bool |-> FALSE, items |-> es]
E_Nil        == [kind |-> "Nil", cls |-> "", num |-> 0, str |-> "",
                 bool |-> FALSE, items |-> <<>>]

\* Token, as parse matches on it
T_Integer(i) == [tok |-> "Integer", num |-> i, str |-> ""]
T_Float(q)   == [tok |-> "Float", num |-> q, str |-> ""]
T_String(s)  == [tok |-> "String", num |-> 0, str |-> s]
T_Symbol(s)  == [tok |-> "Symbol", num |-> 0, str |-> s]
T_Call(s)    == [tok |-> "Call", num |-> 0, str |-> s]
T_Nil          == [tok |-> "Nil", num |-> 0, str |-> ""]
T_ParenStart   == [tok |-> "ParenStart", num |-> 0, str |-> ""]
T_ParenEnd     == [tok |-> "ParenEnd", num |-> 0, str |-> ""]
T_BracketStart == [tok |-> "BracketStart", num |-> 0, str |-> ""]
T_BracketEnd   == [tok |-> "BracketEnd", num |-> 0, str |-> ""]

\* the Call arm with `false` left a Call
call_expr_no_false(s) ==
  IF s = "true" THEN E_Boolean(TRUE) ELSE E_Call(s)

\* the Call arm of parse: `match s.as_str()`
call_expr(s) ==
  IF s = "true" THEN E_Boolean(TRUE)
  ELSE IF s = "false" THEN E_Boolean(FALSE)
  ELSE E_Call(s)

\* the expression pushed for a token that is no bracket
atom_expr(t) ==
  CASE t.tok = "Integer" -> E_Integer(t.num)
    [] t.tok = "Float"   -> E_Float(t.num)
    [] t.tok = "String"  -> E_String(t.str)
    [] t.tok = "Symbol"  -> E_Symbol(t.str)
    [] t.tok = "Call"    -> call_expr(t.str)
    [] t.tok = "Nil"     -> E_Nil

\* blocks.last_mut().unwrap().push(e)
push_last(blks, e) == [blks EXCEPT ![Len(blks)] = Append(@, e)]

\* the closer arms with the popped frame appended to the outermost frame
close_frame_to_root(blks, wrap) ==
  LET block == blks[Len(blks)]
      rest  == SubSeq(blks, 1, Len(blks) - 1)
  IN  [rest EXCEPT ![1] =
         Append(@, IF wrap = "Block" THEN E_Block(block) ELSE E_List(block))]

\* let block = blocks.pop().unwrap();
\* blocks.last_mut().unwrap().push(Expr::Block(block)) (or Expr::List)
close_frame(blks, wrap) ==
  LET block == blks[Len(blks)]
      rest  == SubSeq(blks, 1, Len(blks) - 1)
  IN  push_last(rest,
                IF wrap = "Block" THEN E_Block(block) ELSE E_List(block))

\* parse_token whose opener arm records the expected closer of `(` only
parse_token_bracket_unrecorded(blks, modes, t) ==
  CASE t.tok \in {"ParenStart", "BracketStart"} ->
         [blocks |-> Append(blks, <<>>),
          list_mode |-> IF t.tok = "ParenStart"
                        THEN Append(modes, "Paren") ELSE modes,
          returned |-> FALSE]
    [] t.tok \in {"ParenEnd", "BracketEnd"} ->
         LET want == IF t.tok = "ParenEnd" THEN "Paren" ELSE "Bracket"
             popped == IF Len(modes) = 0 THEN "None" ELSE modes[Len(modes)]
             left == IF Len(modes) = 0 THEN modes
                     ELSE SubSeq(modes, 1, Len(modes) - 1)
         IN  IF popped = want
             THEN [blocks |-> close_frame(blks, IF want = "Paren"
                                                THEN "Block" ELSE "List"),
                   list_mode |-> left, returned |-> FALSE]
             ELSE [blocks |-> blks, list_mode |-> left, returned |-> TRUE]
    [] OTHER ->
         [blocks |-> push_last(blks, atom_expr(t)), list_mode |-> modes,
          returned |-> FALSE]

\* one iteration of the loop of parse on token t: the frames and expected
\* closers afterwards, and whether parse returned vec![] from inside
parse_token(blks, modes, t) ==
  CASE t.tok \in {"ParenStart", "BracketStart"} ->
         [blocks |-> Append(blks, <<>>),
          list_mode |-> Append(modes, IF t.tok = "ParenStart"
                                      THEN "Paren" ELSE "Bracket"),
          returned |-> FALSE]
    [] t.tok \in {"ParenEnd", "BracketEnd"} ->
         LET want == IF t.tok = "ParenEnd" THEN "Paren" ELSE "Bracket"
             popped == IF Len(modes) = 0 THEN "None" ELSE modes[Len(modes)]
             left == IF Len(modes) = 0 THEN modes
                     ELSE SubSeq(modes, 1, Len(modes) - 1)
         IN  IF popped = want
             THEN [blocks |-> close_frame(blks, IF want = "Paren"
                                                THEN "Block" ELSE "List"),
                   list_mode |-> left, returned |-> FALSE]
             ELSE [blocks |-> blks, list_mode |-> left, returned |-> TRUE]
    [] OTHER ->
         [blocks |-> push_last(blks, atom_expr(t)), list_mode |-> modes,
          returned |-> FALSE]

\* the end of parse returning the innermost frame without the check
parse_end_unchecked(blks) == [ret |-> blks[Len(blks)], err |-> ""]

\* `if blocks.len() != 1 { ...; return vec![]; } blocks.last().unwrap().clone()`
parse_end(blks) ==
  IF Len(blks) # 1
  THEN [ret |-> <<>>, err |-> "Unbalanced blocks"]
  ELSE [ret |-> blks[Len(blks)], err |-> ""]

TokenSet == {T_Integer(1), T_Call("true"), T_Call("false"), T_Call("foo"),
             T_Symbol("foo"), T_Nil,
             T_ParenStart, T_ParenEnd, T_BracketStart, T_BracketEnd}

\* what parse leaves alone
nonparse == <<ops, ip, stack, aborted, last, ret, exprs, rets, ndirect,
              a_op, a_lhs, a_rhs, a_res, pc, evars, wvars, cvars>>

\* parse(tokens) entered: one frame open, no closer expected
InitParse ==
  /\ VMFresh /\ ArithIdle /\ MainIdle /\ EqIdle /\ WhereIdle /\ CliIdle
  /\ p_tokens \in UNION {[1..n -> TokenSet] : n \in 0..MaxTokens}
  /\ p_pos = 0
  /\ blocks = <<<<>>>>
  /\ list_mode = <<>>
  /\ p_pc = "scan" /\ p_ret = <<>> /\ p_err = ""

\* one iteration of `for token in tokens`
ParseToken ==
  /\ p_pc = "scan"
  /\ p_pos < Len(p_tokens)
  /\ LET r == parse_token(blocks, list_mode, p_tokens[p_pos + 1])
     IN  /\ blocks' = r.blocks
         /\ list_mode' = r.list_mode
         /\ p_pc' = IF r.returned THEN "returned" ELSE "scan"
         /\ p_err' = IF r.returned THEN "Mismatched brackets" ELSE ""
  /\ p_pos' = p_pos + 1
  /\ p_ret' = <<>>
  /\ UNCHANGED p_tokens
  /\ UNCHANGED nonparse

\* after the loop: the check of blocks.len() and the return
ParseEnd ==
  /\ p_pc = "scan"
  /\ p_pos = Len(p_tokens)
  /\ p_ret' = parse_end(blocks).ret
  /\ p_err' = parse_end(blocks).err
  /\ p_pc' = "returned"
  /\ UNCHANGED <<p_tokens, p_pos, blocks, list_mode>>
  /\ UNCHANGED nonparse

NextParse == ParseToken \/ ParseEnd

SpecParse == InitParse /\ [][NextParse]_vars

(***************************************************************************)
(* impl PartialEq for Expr.                                                *)
(***************************************************************************)
\* f64 == f64: a NaN equals nothing
float_eq(ac, an, bc, bn) == ac = "finite" /\ bc = "finite" /\ an = bn

\* f64::MANTISSA_DIGITS at the model's width: an f64 holds 53 significant
\* bits, fewer than the 63 of an i64's magnitude, so the largest integers
\* are rounded; here the mantissa is two bits short of the magnitude.
MANTISSA_DIGITS == IntBits - 3

\* `*b as f64`: the nearest float, ties to the even mantissa, in the
\* fixed-point unit.  The spacing of the floats around |i| is the power of
\* two that leaves MANTISSA_DIGITS significant bits.
int_as_float(i) ==
  LET mag == Abs(i)
      spacing == CHOOSE u \in {2^k : k \in 0..IntBits} :
                   /\ mag < u * 2^MANTISSA_DIGITS
                   /\ u = 1 \/ mag >= (u \div 2) * 2^MANTISSA_DIGITS
      q == mag \div spacing
      r == mag % spacing
      m == IF 2 * r < spacing THEN q
           ELSE IF 2 * r > spacing THEN q + 1
           ELSE IF q % 2 = 0 THEN q ELSE q + 1
  IN  (IF i < 0 THEN 0 - 1 ELSE 1) * m * spacing * FScale

\* the arms for operands of different variants, without Integer/Boolean
cross_eq_no_bool(a, b) ==
  CASE a.kind = "Float" /\ b.kind = "Integer" ->
         float_eq(a.cls, a.num, "finite", int_as_float(b.num))
    [] a.kind = "Integer" /\ b.kind = "Float" ->
         float_eq("finite", int_as_float(a.num), b.cls, b.num)
    [] OTHER -> FALSE

\* the arms for operands of different variants, without the arm that
\* compares a Boolean on the left with an Integer on the right
cross_eq_one_way(a, b) ==
  CASE a.kind = "Float" /\ b.kind = "Integer" ->
         float_eq(a.cls, a.num, "finite", int_as_float(b.num))
    [] a.kind = "Integer" /\ b.kind = "Float" ->
         float_eq("finite", int_as_float(a.num), b.cls, b.num)
    [] a.kind = "Integer" /\ b.kind = "Boolean" -> (a.num # 0) = b.bool
    [] OTHER -> FALSE

\* the arms of eq under `// Different types`, and `_ => false`
cross_eq(a, b) ==
  CASE a.kind = "Float" /\ b.kind = "Integer" ->
         float_eq(a.cls, a.num, "finite", int_as_float(b.num))
    [] a.kind = "Integer" /\ b.kind = "Float" ->
         float_eq("finite", int_as_float(a.num), b.cls, b.num)
    [] a.kind = "Integer" /\ b.kind = "Boolean" -> (a.num # 0) = b.bool
    [] a.kind = "Boolean" /\ b.kind = "Integer" -> a.bool = (b.num # 0)
    [] OTHER -> FALSE

\* Expr::eq; Vec<Expr> == Vec<Expr> compares lengths, then element by
\* element with Expr::eq
RECURSIVE expr_eq(_, _)
expr_eq(a, b) ==
  IF a.kind = b.kind
  THEN CASE a.kind = "Float"   -> float_eq(a.cls, a.num, b.cls, b.num)
         [] a.kind = "Integer" -> a.num = b.num
         [] a.kind \in {"String", "Symbol", "Call"} -> a.str = b.str
         [] a.kind = "Boolean" -> a.bool = b.bool
         [] a.kind \in {"Block", "List"} ->
              /\ Len(a.items) = Len(b.items)
              /\ \A k \in 1..Len(a.items) : expr_eq(a.items[k], b.items[k])
         [] a.kind = "Nil" -> TRUE
  ELSE cross_eq(a, b)

\* the operands of ==: each variant, the two largest integers and the
\* float 2^63 they both convert to, and 1, 1.0 and true inside a Block or
\* List as well
ExprVals ==
  {E_Integer(0), E_Integer(1), E_Integer(2),
   E_Integer(I64_MAX), E_Integer(I64_MAX - 1),
   E_Float(0), E_Float(FScale), E_Float(FScale + FScale \div 2), E_FloatNaN,
   E_Float((I64_MAX + 1) * FScale),
   E_Boolean(TRUE), E_Boolean(FALSE),
   E_String("foo"), E_Symbol("foo"), E_Call("foo"), E_Nil,
   E_Block(<<>>), E_List(<<>>),
   E_Block(<<E_Integer(1)>>), E_List(<<E_Integer(1)>>),
   E_Block(<<E_Float(FScale)>>), E_List(<<E_Boolean(TRUE)>>),
   E_Block(<<E_List(<<E_Integer(1)>>), E_Nil>>)}

\* what == leaves alone
noneq == <<ops, ip, stack, aborted, last, ret, exprs, rets, ndirect,
           a_op, a_lhs, a_rhs, a_res, pc, pvars, wvars, cvars>>

InitEq ==
  /\ VMFresh /\ ArithIdle /\ MainIdle /\ ParseIdle /\ WhereIdle /\ CliIdle
  /\ e_a \in ExprVals
  /\ e_b \in ExprVals
  /\ e_pc = "ready"
  /\ e_res = FALSE

\* a == b
EqCompare ==
  /\ e_pc = "ready"
  /\ e_res' = expr_eq(e_a, e_b)
  /\ e_pc' = "done"
  /\ UNCHANGED <<e_a, e_b>>
  /\ UNCHANGED noneq

NextEq == EqCompare

SpecEq == InitEq /\ [][NextEq]_vars

(***************************************************************************)
(* stack-std/src/scope.rs: the functions `where` and `dump` of the module  *)
(* scope.  A name is the sequence of its characters, so that the split at  *)
(* ':' is computed.  A value on the stack of the context is a Symbol with  *)
(* its name, a String with its text, an Integer, Nil, or a List with its   *)
(* items.                                                                  *)
(***************************************************************************)
S_Symbol(n) == [kind |-> "Symbol", name |-> n, text |-> "", items |-> <<>>]
S_String(s) == [kind |-> "String", name |-> <<>>, text |-> s, items |-> <<>>]
S_Integer   == [kind |-> "Integer", name |-> <<>>, text |-> "", items |-> <<>>]
S_Nil       == [kind |-> "Nil", name |-> <<>>, text |-> "", items |-> <<>>]
S_List(es)  == [kind |-> "List", name |-> <<>>, text |-> "", items |-> es]

\* x.as_str(): the text of the names that spell an intrinsic
Spell(n) ==
  CASE n = <<"+">> -> "+"
    [] n = <<"d", "r", "o", "p">> -> "drop"
    [] OTHER -> ""

\* Intrinsic::from_str(x.as_str()).is_ok()
is_intrinsic(n) == FromStr(Spell(n)) # ""

\* x.as_str().split(':').next().unwrap_or_default(): the part before the
\* first ':', the whole name when it has none
first_segment(n) ==
  LET colons == {i \in 1..Len(n) : n[i] = ":"}
  IN  IF colons = {} THEN n
      ELSE SubSeq(n, 1, (CHOOSE i \in colons : \A j \in colons : i <= j) - 1)

\* engine.module(&name).is_some()
engine_module(mods, n) == n \in mods
\* context.let_get(x).is_some()
let_get(lets, n) == n \in lets
\* context.scope_item(x).is_some()
scope_item(items, n) == n \in items

\* the if / else-if chain of `where` on the symbol x: what is pushed
where_push(x, mods, lets, items) ==
  IF is_intrinsic(x) THEN S_String("intrinsic")
  ELSE IF engine_module(mods, first_segment(x)) THEN S_String("module")
  ELSE IF let_get(lets, x) THEN S_String("let")
  ELSE IF scope_item(items, x) THEN S_String("scope")
  ELSE S_Nil

\* `where` on the stack stk: pop, classify, push
where_fn(stk, mods, lets, items) ==
  IF Len(stk) = 0 THEN [ret |-> "Err", stack |-> stk]
  ELSE LET symbol == stk[Len(stk)]
           rest == SubSeq(stk, 1, Len(stk) - 1)
       IN  [ret |-> "Ok",
            stack |-> Append(rest,
                        IF symbol.kind = "Symbol"
                        THEN where_push(symbol.name, mods, lets, items)
                        ELSE S_Nil)]

\* content.borrow().val().map(|e| e.kind).unwrap_or(ExprKind::Nil): the
\* value a scope item holds, Nil when it holds none
item_expr(v) == IF v = "none" THEN S_Nil ELSE S_Integer

\* context.scope_items(): the scope items in the order the iterator yields
\* them, which is any order of the names
ScopeOrders(items) ==
  {o \in [1..Cardinality(items) -> items] :
     \A i, j \in 1..Cardinality(items) : o[i] = o[j] => i = j}

\* `dump` on the stack stk, the iterator yielding the names in `order`:
\* pushes the List of the pairs [Symbol(name), value]
dump_fn(stk, order, vals) ==
  [ret |-> "Ok",
   stack |-> Append(stk,
               S_List([i \in 1..Len(order) |->
                         S_List(<<S_Symbol(order[i]),
                                  item_expr(vals[order[i]])>>)]))]

\* the names looked up: an intrinsic, a module name, a plain name, names
\* qualified by each, and a name nothing binds
N_plus == <<"+">>
N_m    == <<"m">>
N_x    == <<"x">>
N_mx   == <<"m", ":", "x">>
N_xm   == <<"x", ":", "m">>
N_y    == <<"y">>
WhereNames == {N_plus, N_m, N_x, N_mx, N_xm, N_y}
BoundNames == {N_plus, N_m, N_x, N_mx}
ModuleNames == {N_m, N_y}

\* what `where` leaves alone
nonwhere == <<ops, ip, stack, aborted, last, ret, exprs, rets, ndirect,
              a_op, a_lhs, a_rhs, a_res, pc, pvars, evars, cvars>>

InitWhere ==
  /\ VMFresh /\ ArithIdle /\ MainIdle /\ ParseIdle /\ EqIdle /\ CliIdle
  /\ w_modules \in SUBSET ModuleNames
  /\ w_lets \in SUBSET BoundNames
  /\ w_items \in SUBSET BoundNames
  /\ w_vals \in [w_items -> {"none", "Integer"}]
  /\ w_stack \in {<<>>, <<S_Integer>>}
                   \cup {<<S_Symbol(n)>> : n \in WhereNames}
                   \cup {<<S_Integer, S_Symbol(n)>> : n \in {N_m, N_mx}}
  /\ w_arg = w_stack
  /\ w_pc = "ready"
  /\ w_ret = ""

\* scope:where called
Where ==
  /\ w_pc = "ready"
  /\ LET r == where_fn(w_stack, w_modules, w_lets, w_items)
     IN  w_ret' = r.ret /\ w_stack' = r.stack
  /\ w_pc' = "done"
  /\ UNCHANGED <<w_modules, w_lets, w_items, w_vals, w_arg>>
  /\ UNCHANGED nonwhere

\* scope:dump called
Dump ==
  /\ w_pc = "ready"
  /\ \E order \in ScopeOrders(w_items) :
       LET r == dump_fn(w_stack, order, w_vals)
       IN  w_ret' = r.ret /\ w_stack' = r.stack
  /\ w_pc' = "dumped"
  /\ UNCHANGED <<w_modules, w_lets, w_items, w_vals, w_arg>>
  /\ UNCHANGED nonwhere

NextWhere == Where \/ Dump

SpecWhere == InitWhere /\ [][NextWhere]_vars

(***************************************************************************)
(* stack-cli/src/main.rs: main under each subcommand.  What the operating  *)
(* system, the line editor, the file watcher, the parser and the VM hand   *)
(* back is an input: "Ok" or "Err".  The error stream and the output       *)
(* stream are the sequences of the kinds of message written to them.       *)
(***************************************************************************)
\* a Result as main sees it
Results == {"Ok", "Err"}

\* what repl.read_line hands back: a failure of the editor, Ctrl-C, Ctrl-D,
\* or a line: one of the commands, an unknown command, or source text
Signals == {"ReadError", "CtrlC", "CtrlD",
            ":exit", ":clear", ":reset", ":other", "code"}

\* what the watcher's channel delivers: a failure, a Modify event, or an
\* event of another kind
Events == {"Err", "Modify", "Other"}

\* ok_or_exit(result): on Err, eprintln!("error: {e}") and
\* std::process::exit(1)
ok_or_exit(res, errs) ==
  IF res = "Ok"
  THEN [exited |-> FALSE, code |-> 0, errs |-> errs]
  ELSE [exited |-> TRUE, code |-> 1, errs |-> Append(errs, "error")]

\* `match vm.run()` of the stdin, REPL and run arms: print_stack on Ok,
\* the error and then eprint_stack on Err
report_run(res, errs, outs) ==
  IF res = "Ok"
  THEN [errs |-> errs, outs |-> Append(outs, "stack")]
  ELSE [errs |-> errs \o <<"error", "stack">>, outs |-> outs]

\* `match vm.run()` of run_file in watch mode: eprint_stack, then the error
report_run_watch(res, errs, outs) ==
  IF res = "Ok"
  THEN [errs |-> errs, outs |-> Append(outs, "stack")]
  ELSE [errs |-> errs \o <<"stack", "error">>, outs |-> outs]

\* what main leaves alone
noncli == <<ops, ip, stack, aborted, last, ret, exprs, rets, ndirect,
            a_op, a_lhs, a_rhs, a_res, pc, pvars, evars, wvars>>

\* `match cli.subcommand`: where each arm starts
Entry(mode) ==
  CASE mode = "Stdin" -> "read"
    [] mode = "Repl"  -> "prompt"
    [] mode = "Run"   -> "read"
    [] mode = "Watch" -> "watcher"

InitCli ==
  /\ VMFresh /\ ArithIdle /\ MainIdle /\ ParseIdle /\ EqIdle /\ WhereIdle
  /\ c_mode \in {"Stdin", "Repl", "Run", "Watch"}
  /\ c_pc = Entry(c_mode)
  /\ c_code = 0
  /\ c_errs = <<>> /\ c_outs = <<>> /\ c_fail = "" /\ c_sig = "" /\ c_n = 0

\* a statement `let x = ok_or_exit(f())` of the arm `mode`, standing at
\* `at`: a failure of kind `kind` ends the process, success goes on to `to`
OkOrExitStep(mode, at, kind, to) ==
  /\ c_mode = mode /\ c_pc = at
  /\ \E res \in Results :
       LET r == ok_or_exit(res, c_errs)
       IN  /\ c_errs' = r.errs
           /\ c_code' = r.code
           /\ c_pc' = IF r.exited THEN "exited" ELSE to
           /\ c_fail' = IF r.exited THEN kind ELSE c_fail
  /\ UNCHANGED <<c_mode, c_outs, c_sig, c_n>>
  /\ UNCHANGED noncli

\* compile, run and report of the stdin and run arms, after which main
\* returns and the process ends with status 0
BatchRun(mode) ==
  /\ c_mode = mode /\ c_pc = "run"
  /\ \E res \in Results :
       LET r == report_run(res, c_errs, c_outs)
       IN  /\ c_errs' = r.errs
           /\ c_outs' = r.outs
           /\ c_fail' = IF res = "Err" THEN "vm" ELSE c_fail
  /\ c_pc' = "exited"
  /\ c_code' = 0
  /\ UNCHANGED <<c_mode, c_sig, c_n>>
  /\ UNCHANGED noncli

\* Subcommand::Stdin
StdinRead  == OkOrExitStep("Stdin", "read", "read", "parse")
StdinParse == OkOrExitStep("Stdin", "parse", "parse", "run")
StdinRun   == BatchRun("Stdin")

\* Subcommand::Run without watch
RunRead  == OkOrExitStep("Run", "read", "read", "parse")
RunParse == OkOrExitStep("Run", "parse", "parse", "run")
RunRun   == BatchRun("Run")

\* Subcommand::Repl: the head of the loop, read_line and the match on the
\* signal up to the point where a line of source is handed to the parser
ReplReadLine ==
  /\ c_mode = "Repl" /\ c_pc = "prompt"
  /\ c_n < MaxLines
  /\ c_n' = c_n + 1
  /\ \E sig \in Signals :
       /\ c_sig' = sig
       /\ CASE sig = "ReadError" ->
                 LET r == ok_or_exit("Err", c_errs)
                 IN  /\ c_errs' = r.errs /\ c_code' = r.code
                     /\ c_pc' = "exited" /\ c_fail' = "read"
                     /\ c_outs' = c_outs
            [] sig \in {"CtrlC", "CtrlD"} ->
                 /\ c_outs' = Append(c_outs, "aborted")
                 /\ c_pc' = "exited" /\ c_code' = 0
                 /\ UNCHANGED <<c_errs, c_fail>>
            [] sig = ":exit" ->
                 /\ c_pc' = "exited" /\ c_code' = 0
                 /\ UNCHANGED <<c_errs, c_outs, c_fail>>
            [] sig = ":clear" ->
                 /\ c_pc' = "clear"
                 /\ UNCHANGED <<c_errs, c_outs, c_fail, c_code>>
            [] sig = ":reset" ->
                 /\ c_outs' = Append(c_outs, "Reset context")
                 /\ c_pc' = "prompt"
                 /\ UNCHANGED <<c_errs, c_fail, c_code>>
            [] sig = ":other" ->
                 /\ c_errs' = Append(c_errs, "unknown command")
                 /\ c_pc' = "prompt"
                 /\ UNCHANGED <<c_outs, c_fail, c_code>>
            [] sig = "code" ->
                 /\ c_pc' = "parse"
                 /\ UNCHANGED <<c_errs, c_outs, c_fail, c_code>>
  /\ UNCHANGED c_mode
  /\ UNCHANGED noncli

\* ":clear": ok_or_exit(repl.clear_screen())
ReplClear == OkOrExitStep("Repl", "clear", "clear", "prompt")

\* let exprs = ok_or_exit(parse(&mut lexer)) on the line entered
ReplParse == OkOrExitStep("Repl", "parse", "parse", "run")

\* vm = VM::new(); vm.compile(exprs); match vm.run(), then the next turn of
\* the loop
ReplRun ==
  /\ c_mode = "Repl" /\ c_pc = "run"
  /\ \E res \in Results :
       LET r == report_run(res, c_errs, c_outs)
       IN  /\ c_errs' = r.errs
           /\ c_outs' = r.outs
           /\ c_fail' = IF res = "Err" THEN "vm" ELSE c_fail
  /\ c_pc' = "prompt"
  /\ UNCHANGED <<c_mode, c_code, c_sig, c_n>>
  /\ UNCHANGED noncli

\* Subcommand::Run with watch: the watcher is created and set on the input
WatchSetup ==
  /\ c_mode = "Watch" /\ c_pc = "watcher"
  /\ \E created \in Results, watching \in Results :
       LET r == ok_or_exit(IF created = "Ok" THEN watching ELSE created,
                           c_errs)
       IN  /\ c_errs' = r.errs
           /\ c_code' = r.code
           /\ c_pc' = IF r.exited THEN "exited" ELSE "clear"
           /\ c_fail' = IF r.exited THEN "watch" ELSE c_fail
  /\ UNCHANGED <<c_mode, c_outs, c_sig, c_n>>
  /\ UNCHANGED noncli

\* ok_or_exit(clear_screen()) before each run_file
WatchClear == OkOrExitStep("Watch", "clear", "clear", "file_read")

\* run_file: a source that cannot be read, or does not parse, is reported
\* and run_file returns
WatchFileStep(at, kind, to) ==
  /\ c_mode = "Watch" /\ c_pc = at
  /\ \E res \in Results :
       /\ c_errs' = IF res = "Err" THEN Append(c_errs, "error") ELSE c_errs
       /\ c_fail' = IF res = "Err" THEN kind ELSE c_fail
       /\ c_pc' = IF res = "Err" THEN "events" ELSE to
  /\ UNCHANGED <<c_mode, c_code, c_outs, c_sig, c_n>>
  /\ UNCHANGED noncli

WatchFileRead  == WatchFileStep("file_read", "read", "file_parse")
WatchFileParse == WatchFileStep("file_parse", "parse", "file_run")

\* run_file: compile, run and report.  The sources watched after the first
\* run are those of the outer context, which has none.
WatchFileRun ==
  /\ c_mode = "Watch" /\ c_pc = "file_run"
  /\ \E res \in Results :
       LET r == report_run_watch(res, c_errs, c_outs)
       IN  /\ c_errs' = r.errs
           /\ c_outs' = r.outs
           /\ c_fail' = IF res = "Err" THEN "vm" ELSE c_fail
  /\ c_pc' = "events"
  /\ UNCHANGED <<c_mode, c_code, c_sig, c_n>>
  /\ UNCHANGED noncli

\* `for event in rx`: one event received
WatchEvent ==
  /\ c_mode = "Watch" /\ c_pc = "events"
  /\ c_n < MaxLines
  /\ c_n' = c_n + 1
  /\ \E ev \in Events :
       LET r == ok_or_exit(IF ev = "Err" THEN "Err" ELSE "Ok", c_errs)
       IN  /\ c_errs' = r.errs
           /\ c_code' = r.code
           /\ c_fail' = IF r.exited THEN "event" ELSE c_fail
           /\ c_pc' = IF r.exited THEN "exited"
                      ELSE IF ev = "Modify" THEN "clear" ELSE "events"
  /\ UNCHANGED <<c_mode, c_outs, c_sig>>
  /\ UNCHANGED noncli

NextCli ==
  \/ StdinRead \/ StdinParse \/ StdinRun
  \/ RunRead \/ RunParse \/ RunRun
  \/ ReplReadLine \/ ReplClear \/ ReplParse \/ ReplRun
  \/ WatchSetup \/ WatchClear \/ WatchFileRead \/ WatchFileParse
  \/ WatchFileRun \/ WatchEvent

SpecCli == InitCli /\ [][NextCli]_vars

TypeOK ==
  /\ ip \in 0..Len(ops)
  /\ Len(ops) <= MaxOps
  /\ aborted \in BOOLEAN
  /\ w_pc \in {"idle", "ready", "done", "dumped"}
  /\ c_code \in {0, 1}
  /\ c_n \in 0..MaxLines
  /\ c_fail \in {"", "read", "parse", "vm", "clear", "watch", "event"}
  /\ w_ret \in {"", "Ok", "Err"}
  /\ \A i \in 1..Len(w_stack) :
       w_stack[i].kind \in {"Symbol", "String", "Integer", "Nil", "List"}

(***************************************************************************)
(* Properties.                                                             *)
(***************************************************************************)
\* the expression sequence of the source `2 2 +` and the stream it gives
Source22 == <<ExprInteger(2), ExprInteger(2), ExprSymbol("+")>>
Prog22 == <<Push(Integer(2)), Push(Integer(2)), Intrinsic("Add"), End>>

\* a VM that compiled `2 2 +` once and was since driven by step alone
Run22 == exprs = Source22 /\ ops = Prog22 /\ ndirect = 0

\* C1 as stated: on the stream of `2 2 +`, four steps give the stack
\* [Integer(4)], none of the four reports a halt or a failure, and the
\* fifth step reports the halt.
C1_HaltOnFifthStep ==
  /\ (Run22 /\ Len(rets) >= 4) =>
       /\ stack = <<Integer(4)>>
       /\ \A k \in 1..4 : rets[k] = RetOk
  /\ (Run22 /\ Len(rets) >= 5) => rets[5] = RetErr("Halt")

\* C1 amended: on the stream of `2 2 +`, three steps give the stack
\* [Integer(4)] and none of the three reports a halt or a failure; the
\* fourth step reports the halt and leaves the stack [Integer(4)].
C1_HaltOnFourthStep ==
  /\ (Run22 /\ Len(rets) >= 3) => \A k \in 1..3 : rets[k] = RetOk
  /\ (Run22 /\ Len(rets) \in {3, 4}) => stack = <<Integer(4)>>
  /\ (Run22 /\ Len(rets) >= 4) => rets[4] = RetErr("Halt")

C1_Witness ==
  /\ Run22 /\ Len(rets) = 4 /\ last = "step"
  /\ ret = RetErr("Halt") /\ stack = <<Integer(4)>>

\* an integer literal or a name spelling a known intrinsic
IsLitOrIntrinsic(e) ==
  \/ e.kind = "Integer"
  \/ e.kind = "Symbol" /\ e.sym \in {"+", "drop"}

\* the op such an expression is to lower to
ExpectedOp(e) ==
  IF e.kind = "Integer" THEN Push(Integer(e.int))
  ELSE IF e.sym = "+" THEN Intrinsic("Add") ELSE Intrinsic("Drop")

\* C2: compile on a fresh VM with n expressions, each an integer literal
\* or an intrinsic name, returns normally with a stream of exactly n+1 ops:
\* op k is the lowering of expression k, the last op is End and End occurs
\* nowhere else.
C2_CompileStream ==
  [][(/\ last' = "compile"
      /\ ops = <<>>
      /\ \A k \in 1..Len(exprs') : IsLitOrIntrinsic(exprs'[k]))
     => (/\ ret' = RetOk
         /\ ~aborted'
         /\ Len(ops') = Len(exprs') + 1
         /\ \A k \in 1..Len(exprs') :
              ops'[k] = ExpectedOp(exprs'[k]) /\ ops'[k] # End
         /\ ops'[Len(ops')] = End)]_vars

C2_Witness ==
  /\ last = "compile" /\ ret = RetOk
  /\ exprs = Source22 /\ ops = Prog22

\* C3: a compile call whose expressions are all integer or float literals
\* does not abort, and pushes Push(Integer(i)) for the literal i and
\* Push(Float(f)) for the literal f.
C3_LiteralsLowerToPush ==
  (/\ last = "compile"
   /\ \A k \in 1..Len(exprs) : exprs[k].kind \in {"Integer", "Float"})
  => (/\ ret = RetOk
      /\ ~aborted
      /\ Len(ops) >= Len(exprs) + 1
      /\ \A k \in 1..Len(exprs) :
           ops[Len(ops) - 1 - Len(exprs) + k] =
             IF exprs[k].kind = "Integer"
             THEN Push(Integer(exprs[k].int))
             ELSE Push(Float(exprs[k].flt)))

\* the exact sum of two i64 clamped to [i64::MIN, i64::MAX]
SatSum(a, b) ==
  IF a + b > I64_MAX THEN I64_MAX
  ELSE IF a + b < I64_MIN THEN I64_MIN ELSE a + b

\* the step about to run reads Intrinsic(Add)
AtAdd == ~aborted /\ ip < Len(ops) /\ ops[ip + 1] = Intrinsic("Add")

\* C4: a step that executes Intrinsic(Add) with two Integer values on top
\* of the stack reports success, replaces the two by their saturating sum
\* (second-popped on the left), and leaves every value below unchanged, so
\* the depth drops by exactly one.
C4_AddIntegers ==
  [][(/\ last' = "step" /\ Len(rets') = Len(rets) + 1
      /\ AtAdd
      /\ Len(stack) >= 2
      /\ stack[Len(stack)].variant = "Integer"
      /\ stack[Len(stack) - 1].variant = "Integer")
     => (/\ ret' = RetOk
         /\ Len(stack') = Len(stack) - 1
         /\ \A k \in 1..(Len(stack) - 2) : stack'[k] = stack[k]
         /\ stack'[Len(stack')] =
              Integer(SatSum(stack[Len(stack) - 1].v, stack[Len(stack)].v)))
    ]_vars

\* an Add that saturated at i64::MAX above an untouched value
C4_Witness ==
  /\ last = "step" /\ ret = RetOk
  /\ ip = 3 /\ ops[3] = Intrinsic("Add")
  /\ ops[1] = Push(Integer(I64_MAX)) /\ ops[2] = Push(Integer(2))
  /\ stack = <<Integer(2), Integer(I64_MAX)>>

\* the exact result of an integer operator, division truncating
Exact(op, a, b) ==
  CASE op = "add" -> a + b
    [] op = "sub" -> a - b
    [] op = "mul" -> a * b
    [] op = "div" -> IF b = 0 THEN 0 ELSE TruncDiv(a, b)

BothInteger == a_lhs.variant = "Integer" /\ a_rhs.variant = "Integer"

\* C5: for all i64 a and b, zero and the bounds included, add, sub, mul
\* and div of Integer(a) and Integer(b) never panic and return
\* Ok(Integer(r)), r the exact result clamped to [i64::MIN, i64::MAX].
C5_SaturatingNoPanic ==
  (a_op \in {"add", "sub", "mul", "div"} /\ BothInteger)
  => (/\ a_res.tag = "Ok"
      /\ a_res.val.variant = "Integer"
      /\ LET r == Exact(a_op, a_lhs.v, a_rhs.v)
         IN  a_res.val.v = IF r > I64_MAX THEN I64_MAX
                           ELSE IF r < I64_MIN THEN I64_MIN ELSE r)

\* C6: for all i64 a and b, rem of Integer(a) and Integer(b) returns a
\* value and never panics, also for a = i64::MIN with b = -1.
C6_RemNoPanic ==
  (a_op = "rem" /\ BothInteger)
  => (a_res.tag = "Ok" /\ a_res.val.variant = "Integer")

\* C7: on operands of different variants each of add, sub, mul, div and
\* rem returns the failure carrying both operands in (left, right) order:
\* no panic, no coercion.
C7_MixedVariantsFail ==
  (a_op \in ArithOps /\ a_lhs.variant # a_rhs.variant)
  => (a_res.tag = "Err" /\ a_res.lhs = a_lhs /\ a_res.rhs = a_rhs)

C7_Witness ==
  /\ a_op = "rem"
  /\ a_lhs = Integer(I64_MIN) /\ a_rhs = Float(0)
  /\ a_res.tag = "Err"

\* C8: a step that executes Intrinsic(Add) on two operands of different
\* variants returns a failure to its caller; it does not abort the process
\* and pushes nothing.
C8_AddMismatchIsFailure ==
  [][(/\ last' = "step" /\ Len(rets') = Len(rets) + 1
      /\ AtAdd
      /\ Len(stack) >= 2
      /\ stack[Len(stack)].variant # stack[Len(stack) - 1].variant)
     => (/\ ret'.tag = "Err"
         /\ ~aborted'
         /\ Len(stack') <= Len(stack) - 2)]_vars

\* the step about to run reads End
AtEnd == ~aborted /\ ip < Len(ops) /\ ops[ip + 1] = End

\* C9: a step that executes End reports Halt and leaves the stack
\* unchanged, and Halt is reported by no other step: a step that
\* underflows, runs off the stream or fails in arithmetic never reports it.
C9_HaltDistinct ==
  [][(last' = "step" /\ Len(rets') = Len(rets) + 1)
     => (/\ AtEnd => (ret' = RetErr("Halt") /\ stack' = stack)
         /\ ret' = RetErr("Halt") => AtEnd)]_vars

C9_Witness ==
  /\ last = "step" /\ ret = RetErr("Halt")
  /\ Len(stack) >= 1 /\ ip = Len(ops)

\* C10: a step called with ip at or beyond the end of the stream, which
\* therefore executes no End, returns the bounds failure IPBounds.
C10_OffEndIsIPBounds ==
  [][(/\ last' = "step" /\ Len(rets') = Len(rets) + 1
      /\ ~aborted
      /\ ip >= Len(ops))
     => (ret' = RetErr("IPBounds") /\ ~aborted')]_vars

\* a step call, as opposed to a stuttering step
StepCall == last' = "step" /\ Len(rets') = Len(rets) + 1

\* C11: a step that executes Add with fewer than two values on the stack
\* returns the failure Unknown without aborting, and that failure is
\* returned by no other step: not by End (Halt), not by a step off the end
\* of the stream, not by an Add that finds its two operands.
C11_UnderflowDistinct ==
  [][StepCall
     => (/\ (AtAdd /\ Len(stack) < 2)
              => (ret' = RetErr("Unknown") /\ ~aborted')
         /\ ret' = RetErr("Unknown") => (AtAdd /\ Len(stack) < 2))
    ]_vars

\* Add failed on a stack of one value
C11_Witness ==
  /\ last = "step" /\ ret = RetErr("Unknown") /\ ~aborted
  /\ ip = 2 /\ ops[1] = Push(Integer(2)) /\ ops[2] = Intrinsic("Add")

\* C12: a step that returns a failure leaves the value stack as it was
\* before the step; a value that was alone on the stack when Add failed is
\* still there.
C12_FailureKeepsStack ==
  [][(StepCall /\ ret'.tag = "Err" /\ ret'.err # "Halt")
     => stack' = stack]_vars

\* the stream is what one compile call on a fresh VM produced
CompiledOnce == last # "new" /\ Len(ops) = Len(exprs) + 1

\* C13: on a stream produced by compile on a fresh VM, a halt or a failure
\* is reached after at most as many steps as the stream has ops: the
\* first Len(ops) steps are never all successful.
C13_StopsWithinLength ==
  (CompiledOnce /\ Len(rets) >= Len(ops))
  => \E k \in 1..Len(ops) : rets[k] # RetOk

\* a stream of four ops that halted on exactly its fourth step
C13_Witness ==
  /\ CompiledOnce /\ Len(ops) = 4 /\ Len(rets) = 4
  /\ \A k \in 1..3 : rets[k] = RetOk
  /\ rets[4] = RetErr("Halt")

\* some step of the run has reported something other than success
Reported == \E k \in 1..Len(rets) : rets[k] # RetOk

\* C14: within one run of main, once a step has reported a failure no
\* later op is executed: no further step is made, and the instruction
\* pointer and the stack stay as the failing step left them.
C14_NoStepAfterFailure ==
  [][Reported => (rets' = rets /\ ip' = ip /\ stack' = stack)]_vars

\* the run ended on an underflow with a Push still ahead in the stream
C14_Witness ==
  /\ pc = "exit" /\ ret = RetErr("Unknown")
  /\ ip < Len(ops) /\ ops[ip + 1].op = "Push"

(***************************************************************************)
(* Token streams and the trees they denote, stated without the frame       *)
(* stack of parse.                                                         *)
(***************************************************************************)
IsOpener(t) == t.tok \in {"ParenStart", "BracketStart"}
IsCloser(t) == t.tok \in {"ParenEnd", "BracketEnd"}
BracketKind(t) ==
  IF t.tok \in {"ParenStart", "ParenEnd"} THEN "Paren" ELSE "Bracket"

\* toks[i..] closes exactly the openers pending in st, in order and kind
RECURSIVE MatchFrom(_, _, _)
MatchFrom(toks, i, st) ==
  IF i > Len(toks) THEN st = <<>>
  ELSE IF IsOpener(toks[i])
  THEN MatchFrom(toks, i + 1, Append(st, BracketKind(toks[i])))
  ELSE IF IsCloser(toks[i])
  THEN /\ st # <<>>
       /\ st[Len(st)] = BracketKind(toks[i])
       /\ MatchFrom(toks, i + 1, SubSeq(st, 1, Len(st) - 1))
  ELSE MatchFrom(toks, i + 1, st)

\* every opener has its closer of the same kind, properly nested
Matched(toks) == MatchFrom(toks, 1, <<>>)

\* index of the closer that ends the bracket opened before toks[i], depth
\* counting the brackets opened since
RECURSIVE CloserAt(_, _, _)
CloserAt(toks, i, depth) ==
  IF IsOpener(toks[i]) THEN CloserAt(toks, i + 1, depth + 1)
  ELSE IF IsCloser(toks[i])
  THEN IF depth = 0 THEN i ELSE CloserAt(toks, i + 1, depth - 1)
  ELSE CloserAt(toks, i + 1, depth)

\* the expression a token that is no bracket stands for
ExpectedAtom(t) ==
  CASE t.tok = "Integer" -> E_Integer(t.num)
    [] t.tok = "Float"   -> E_Float(t.num)
    [] t.tok = "String"  -> E_String(t.str)
    [] t.tok = "Symbol"  -> E_Symbol(t.str)
    [] t.tok = "Nil"     -> E_Nil
    [] t.tok = "Call" /\ t.str = "true"  -> E_Boolean(TRUE)
    [] t.tok = "Call" /\ t.str = "false" -> E_Boolean(FALSE)
    [] OTHER -> E_Call(t.str)

\* the tree of a matched stream: a paren pair is a Block, a bracket pair a
\* List, each holding the tree of what it encloses
RECURSIVE Tree(_)
Tree(toks) ==
  IF toks = <<>> THEN <<>>
  ELSE IF IsOpener(toks[1])
  THEN LET j == CloserAt(toks, 2, 0)
           inner == Tree(SubSeq(toks, 2, j - 1))
       IN  <<IF BracketKind(toks[1]) = "Paren"
             THEN E_Block(inner) ELSE E_List(inner)>>
             \o Tree(SubSeq(toks, j + 1, Len(toks)))
  ELSE <<ExpectedAtom(toks[1])>> \o Tree(SubSeq(toks, 2, Len(toks)))

\* number of brackets open before toks[i]
RECURSIVE DepthAt(_, _)
DepthAt(toks, i) ==
  IF i = 1 THEN 0
  ELSE DepthAt(toks, i - 1)
         + (IF IsOpener(toks[i - 1]) THEN 1 ELSE 0)
         - (IF IsCloser(toks[i - 1]) THEN 1 ELSE 0)

\* top-level atoms plus top-level bracket pairs
TopCount(toks) ==
  Cardinality({i \in 1..Len(toks) :
                 DepthAt(toks, i) = 0 /\ ~IsCloser(toks[i])})

\* C15: on a token stream with an unmatched opener, an unmatched closer or
\* a closer of the wrong kind, parse returns the empty sequence, whatever
\* precedes or follows the imbalance.
C15_ImbalanceYieldsEmpty ==
  (p_pc = "returned" /\ ~Matched(p_tokens)) => p_ret = <<>>

\* `( 1 ]` followed by another token
C15_Witness ==
  /\ p_pc = "returned"
  /\ p_tokens = <<T_ParenStart, T_Integer(1), T_BracketEnd, T_Integer(1)>>
  /\ p_ret = <<>> /\ p_err = "Mismatched brackets"

\* C16: on a matched token stream parse succeeds and returns the tree that
\* mirrors the nesting, and the number of top-level expressions is the
\* number of top-level atoms plus top-level bracket pairs.
C16_MatchedYieldsTree ==
  (p_pc = "returned" /\ Matched(p_tokens))
  => (/\ p_err = ""
      /\ p_ret = Tree(p_tokens)
      /\ Len(p_ret) = TopCount(p_tokens))

\* `( [ ] )`: a List inside a Block
C16_Witness ==
  /\ p_pc = "returned"
  /\ p_tokens = <<T_ParenStart, T_BracketStart, T_BracketEnd, T_ParenEnd>>
  /\ p_ret = <<E_Block(<<E_List(<<>>)>>)>>

\* the expressions of a tree that are no Block and no List, in order
RECURSIVE Leaves(_)
Leaves(es) ==
  IF es = <<>> THEN <<>>
  ELSE (IF es[1].kind \in {"Block", "List"}
        THEN Leaves(es[1].items) ELSE <<es[1]>>)
         \o Leaves(SubSeq(es, 2, Len(es)))

\* the tokens that are no bracket, in order
Atoms(toks) == SelectSeq(toks, LAMBDA t : ~IsOpener(t) /\ ~IsCloser(t))

\* C17: in the tree parse returns for a matched stream, at every depth,
\* the bare identifiers true and false are Boolean(true) and
\* Boolean(false), every other bare identifier is a Call of its name and
\* every quoted identifier a Symbol of its name; none is dropped.
C17_IdentifiersClassified ==
  (p_pc = "returned" /\ Matched(p_tokens))
  => LET leaves == Leaves(p_ret)
         atoms  == Atoms(p_tokens)
     IN  /\ Len(leaves) = Len(atoms)
         /\ \A k \in 1..Len(atoms) :
              /\ (atoms[k].tok = "Call" /\ atoms[k].str = "true")
                   => leaves[k] = E_Boolean(TRUE)
              /\ (atoms[k].tok = "Call" /\ atoms[k].str = "false")
                   => leaves[k] = E_Boolean(FALSE)
              /\ (atoms[k].tok = "Call"
                    /\ atoms[k].str \notin {"true", "false"})
                   => leaves[k] = E_Call(atoms[k].str)
              /\ atoms[k].tok = "Symbol" => leaves[k] = E_Symbol(atoms[k].str)

\* `( false foo )`: identifiers one level down
C17_Witness ==
  /\ p_pc = "returned"
  /\ p_tokens = <<T_ParenStart, T_Call("false"), T_Call("foo"), T_ParenEnd>>
  /\ p_ret = <<E_Block(<<E_Boolean(FALSE), E_Call("foo")>>)>>

\* the integers an f64 holds exactly: those that fit MANTISSA_DIGITS bits
\* after the trailing zero bits are taken off
IsFloatInt(f) ==
  \E k \in 0..IntBits :
    Abs(f) % 2^k = 0 /\ Abs(f) \div 2^k < 2^MANTISSA_DIGITS

\* i converted to float: the float integer nearest to i, and of two
\* equally near the one whose mantissa is even
NearestFloat(i) ==
  LET reach == 2^(IntBits - MANTISSA_DIGITS)
      near == {f \in (i - reach)..(i + reach) : IsFloatInt(f)}
      best == {f \in near : \A g \in near : Abs(f - i) <= Abs(g - i)}
  IN  IF i \in best THEN i
      ELSE CHOOSE f \in best :
             \A g \in best \ {f} : (Abs(f) \div Abs(f - g)) % 2 = 0

\* C18: for operands of different variants, Integer(i) == Float(f) iff i
\* converted to float equals f, Integer(i) == Boolean(b) iff (i # 0) = b
\* (either operand first), and every other pair is unequal.
C18_CrossVariantEquality ==
  (e_pc = "done" /\ e_a.kind # e_b.kind)
  => LET kinds == {e_a.kind, e_b.kind}
         int == IF e_a.kind = "Integer" THEN e_a ELSE e_b
         oth == IF e_a.kind = "Integer" THEN e_b ELSE e_a
     IN  e_res = CASE kinds = {"Integer", "Float"} ->
                        /\ oth.cls = "finite"
                        /\ NearestFloat(int.num) * FScale = oth.num
                   [] kinds = {"Integer", "Boolean"} ->
                        (int.num # 0) = oth.bool
                   [] OTHER -> FALSE

\* Integer(2) == Boolean(true) compared and found equal
C18_Witness ==
  /\ e_pc = "done" /\ e_res = TRUE
  /\ e_a = E_Integer(2) /\ e_b = E_Boolean(TRUE)

\* `where` was called with the symbol n on top of the stack `below`, and
\* has returned
WhereRan(below, n) == w_pc = "done" /\ w_arg = below \o <<S_Symbol(n)>>

\* the classification `where` left on top of the stack, "Nil" for Nil
Answer ==
  LET top == w_stack[Len(w_stack)]
  IN  IF top.kind = "String" THEN top.text ELSE top.kind

\* the names with a ':' in them, and the part before the first ':'
Qualified(n) == \E i \in 1..Len(n) : n[i] = ":"
Qualifier(n) ==
  LET first == CHOOSE i \in 1..Len(n) :
                 n[i] = ":" /\ \A j \in 1..(i - 1) : n[j] # ":"
  IN  [k \in 1..(first - 1) |-> n[k]]

\* the four categories of a name; the module category is that of a
\* qualified name whose qualifier is registered
IsIntrinsicName(n) == n \in {<<"+">>, <<"d", "r", "o", "p">>}
IsModuleName(n) == Qualified(n) /\ Qualifier(n) \in w_modules
IsLetName(n) == n \in w_lets
IsScopeName(n) == n \in w_items

\* an unqualified name, not an intrinsic, that equals a registered module's
\* name: the case C20 is about
BareModuleName(n) ==
  ~Qualified(n) /\ ~IsIntrinsicName(n) /\ n \in w_modules

\* the first category of n in the order intrinsic, module, let, scope
FirstCategory(n) ==
  CASE IsIntrinsicName(n) -> "intrinsic"
    [] ~IsIntrinsicName(n) /\ IsModuleName(n) -> "module"
    [] ~IsIntrinsicName(n) /\ ~IsModuleName(n) /\ IsLetName(n) -> "let"
    [] ~IsIntrinsicName(n) /\ ~IsModuleName(n) /\ ~IsLetName(n)
         /\ IsScopeName(n) -> "scope"
    [] OTHER -> "Nil"

\* `where`, having run on the symbol n above `below`, returned Ok, left
\* `below` in place and put the first category of n on top; an intrinsic
\* that is also bound by let or def is reported as intrinsic, and a name
\* bound by both let and def that is neither an intrinsic nor in the
\* module category is reported as let
FirstCategoryOnTop(below, n) ==
  /\ w_ret = "Ok"
  /\ Len(w_stack) = Len(below) + 1
  /\ SubSeq(w_stack, 1, Len(below)) = below
  /\ Answer = FirstCategory(n)
  /\ (IsIntrinsicName(n) /\ (IsLetName(n) \/ IsScopeName(n)))
       => Answer = "intrinsic"
  /\ (IsLetName(n) /\ IsScopeName(n) /\ ~IsIntrinsicName(n)
        /\ ~IsModuleName(n)) => Answer = "let"

\* C19: after `where` ran on any symbol n, the value on top of the stack is
\* the first category of n in the order intrinsic, module (a qualified
\* name whose qualifier is registered), let, scope, and Nil when n is in
\* none; an intrinsic that is also bound by let or def is reported as
\* intrinsic, and a name bound by both let and def is reported as let.
C19_FirstCategoryWins ==
  \A n \in WhereNames :
    \A below \in {<<>>, <<S_Integer>>} :
      WhereRan(below, n) => FirstCategoryOnTop(below, n)

\* what `where` does keep to: the order intrinsic, module, let, scope, Nil
\* for every name but the unqualified ones that equal a registered
\* module's name
FirstCategoryWinsUnlessBareModule ==
  \A n \in WhereNames :
    \A below \in {<<>>, <<S_Integer>>} :
      (WhereRan(below, n) /\ ~BareModuleName(n)) =>
        FirstCategoryOnTop(below, n)

\* `where` ran on the plain name x, bound by both let and def while the
\* only registered module is m, and answered "let"
LetBeforeScopeReached ==
  /\ WhereRan(<<>>, N_x)
  /\ N_x \in w_lets /\ N_x \in w_items
  /\ w_modules = {N_m}
  /\ w_stack = <<S_String("let")>>

\* `where` ran on the unqualified name m, bound by both let and def, while
\* a module m is registered, and answered "module" where the order of the
\* categories gives "let"
BareModuleBeatsLetReached ==
  /\ WhereRan(<<>>, N_m)
  /\ N_m \in w_modules /\ N_m \in w_lets /\ N_m \in w_items
  /\ FirstCategory(N_m) = "let"
  /\ w_stack = <<S_String("module")>>

\* C20: `where` answers "module" only for a qualified name whose part
\* before the first ':' is a registered module, and an unqualified name
\* bound by let or def that equals a registered module's name is answered
\* "let" or "scope".
C20_ModuleOnlyQualified ==
  \A n \in WhereNames :
    WhereRan(<<>>, n) =>
      /\ Answer = "module" => IsModuleName(n)
      /\ (BareModuleName(n) /\ (IsLetName(n) \/ IsScopeName(n)))
           => Answer \in {"let", "scope"}

\* what `where` does with the unqualified names instead: the part before
\* the first ':' of a name without ':' is the whole name, so every name
\* that is not an intrinsic and equals a registered module's name is
\* answered "module", whatever let and def bind
BareModuleAnswer ==
  \A n \in WhereNames :
    (WhereRan(<<>>, n) /\ BareModuleName(n)) => Answer = "module"

\* `where` ran on the unqualified name m, bound by let, while a module m is
\* registered, and answered "module"
BareModuleReached ==
  /\ WhereRan(<<>>, N_m)
  /\ N_m \in w_modules /\ N_m \in w_lets
  /\ w_stack = <<S_String("module")>>

\* C23: in every state the VM reaches, ip lies between 0 and the length of
\* the instruction stream; a step taken while ip is below the length leaves
\* ip exactly one higher, whatever the op read then does; and no operation
\* of the VM lowers ip or takes it past the largest usize.
C23_IpWithinStream ==
  [][/\ 0 <= ip /\ ip <= Len(ops)
     /\ 0 <= ip' /\ ip' <= Len(ops')
     /\ (StepCall /\ ip < Len(ops)) => ip' = ip + 1
     /\ ip' >= ip
     /\ ip' <= USIZE_MAX]_vars

\* the second step of the stream of `2 +` read the Add at ip = 1, failed on
\* the one-value stack, and left ip at 2, below the length 3
C23_Witness ==
  /\ last = "step"
  /\ Len(rets) = 2
  /\ ret = RetErr("Unknown")
  /\ ops = <<Push(Integer(2)), Intrinsic("Add"), End>>
  /\ ip = 2

\* the token the loop of parse takes next, while there is one
NextIsCloser ==
  p_pos < Len(p_tokens) /\ IsCloser(p_tokens[p_pos + 1])

\* C24: while parse has not returned, after any prefix of the tokens, the
\* open frames are one more than the expected closers, so there is always
\* a frame to push to; when the next token is a closer and a closer is
\* expected there are two frames at least, so the pop and the push into the
\* frame below both find their frame; and a closer that arrives with no
\* closer expected makes parse return with the one root frame in place.
C24_FramesOneMoreThanClosers ==
  /\ p_pc = "scan" =>
       /\ Len(blocks) = Len(list_mode) + 1
       /\ Len(blocks) >= 1
       /\ (NextIsCloser /\ Len(list_mode) >= 1) => Len(blocks) >= 2
  /\ (p_pc = "returned" /\ p_err = "Mismatched brackets"
        /\ Len(list_mode) = 0 /\ p_pos <= Len(p_tokens)) =>
       Len(blocks) >= 1

\* after `( [`, two closers are expected and three frames are open, parse
\* still scanning
C24_Witness ==
  /\ p_pc = "scan"
  /\ p_pos = 2
  /\ list_mode = <<"Paren", "Bracket">>
  /\ Len(blocks) = 3
  /\ NextIsCloser

\* C25: Expr equality is symmetric: whatever a == b returned, b == a
\* returns the same, for operands of the same variant, of the coerced
\* pairs Integer/Float and Integer/Boolean, of unrelated variants, and for
\* blocks and lists that hold them.
C25_EqualitySymmetric ==
  e_pc = "done" => (e_res <=> expr_eq(e_b, e_a))

\* Boolean(true) == Integer(2) compared and found equal, as is
\* Integer(2) == Boolean(true)
C25_Witness ==
  /\ e_pc = "done" /\ e_res = TRUE
  /\ e_a = E_Boolean(TRUE) /\ e_b = E_Integer(2)
  /\ expr_eq(e_b, e_a)

\* C26: Expr equality is transitive: when a == b returned true, every c
\* with b == c also has a == c, chains through the coerced Integer/Boolean
\* and Integer/Float comparisons included.
C26_EqualityTransitive ==
  (e_pc = "done" /\ e_res) =>
    \A c \in ExprVals : expr_eq(e_b, c) => expr_eq(e_a, c)

\* the chain that breaks it: Integer(1) == Boolean(true) compared and found
\* equal, Boolean(true) == Integer(2) holds, Integer(1) == Integer(2) does
\* not
C26_ChainReached ==
  /\ e_pc = "done" /\ e_res = TRUE
  /\ e_a = E_Integer(1) /\ e_b = E_Boolean(TRUE)
  /\ expr_eq(e_b, E_Integer(2))
  /\ ~expr_eq(e_a, E_Integer(2))

\* the REPL is working on a line of source it has read: parsing it or
\* running it
ReplOnLine == c_mode = "Repl" /\ c_pc \in {"parse", "run"}

\* C21: in REPL mode, whatever lexing, parsing or running an entered line
\* comes to, the process goes on and the loop is back at reading the next
\* line; and the process ends only after the line `:exit`, Ctrl-C or
\* Ctrl-D was read, or when no line could be read from the terminal at all.
C21_ReplOutlivesFailures ==
  [][/\ ReplOnLine => (c_pc' \in {"run", "prompt"} /\ c_code' = 0)
     /\ (c_mode = "Repl" /\ c_pc # "exited" /\ c_pc' = "exited") =>
          c_sig' \in {":exit", "CtrlC", "CtrlD", "ReadError"}]_vars

\* what the REPL does keep to: a failure of the VM on an entered line is
\* reported on the error stream and the loop reads the next line
ReplOutlivesVMFailure ==
  [][(c_mode = "Repl" /\ c_pc = "run") =>
       /\ c_pc' = "prompt" /\ c_code' = 0
       /\ Len(c_errs') > Len(c_errs) \/ Len(c_outs') > Len(c_outs)]_vars

\* the REPL read a line of source that did not parse, and the process has
\* ended with status 1
ReplEndedOnParseFailure ==
  /\ c_mode = "Repl" /\ c_pc = "exited" /\ c_code = 1
  /\ c_sig = "code" /\ c_fail = "parse"
  /\ c_errs = <<"error">>

\* C22: in the stdin mode and the run mode without watch, once a read,
\* parse or VM failure has come up, a message is on the error stream and
\* the process has ended with a status other than 0.
C22_BatchFailureExitsNonZero ==
  (c_mode \in {"Stdin", "Run"} /\ c_fail # "") =>
    /\ c_errs # <<>>
    /\ c_pc = "exited"
    /\ c_code # 0

\* what the two modes do keep to: a read or parse failure is printed and
\* ends the process with status 1, and every failure is printed
BatchReadParseFailureExitsOne ==
  /\ (c_mode \in {"Stdin", "Run"} /\ c_fail \in {"read", "parse"}) =>
       (c_errs = <<"error">> /\ c_pc = "exited" /\ c_code = 1)
  /\ (c_mode \in {"Stdin", "Run"} /\ c_fail = "vm") =>
       (c_errs = <<"error", "stack">> /\ c_pc = "exited")

\* the file run without watch failed in the VM, the failure and the stack
\* are on the error stream, and the process has ended with status 0
BatchEndedZeroOnVMFailure ==
  /\ c_mode = "Run" /\ c_pc = "exited" /\ c_code = 0
  /\ c_fail = "vm"
  /\ c_errs = <<"error", "stack">>

\* a chain without Booleans that breaks it as well: the two largest
\* integers both convert to the float 2^63, so Integer(MAX - 1) ==
\* Float(2^63) compared and found equal, Float(2^63) == Integer(MAX) holds,
\* and Integer(MAX - 1) == Integer(MAX) does not
C26_FloatChainReached ==
  /\ e_pc = "done" /\ e_res = TRUE
  /\ e_a = E_Integer(I64_MAX - 1) /\ e_b = E_Float((I64_MAX + 1) * FScale)
  /\ expr_eq(e_b, E_Integer(I64_MAX))
  /\ ~expr_eq(e_a, E_Integer(I64_MAX))

====
